---------------------------- MODULE Spec2Model ----------------------------
(* A model of nanogui's Screen (src/src/screen.cpp): the event dispatcher, *)
(* the focus manager, the drag/capture controller and the window stacking. *)
(* The Widget, Window and Popup classes are not part of src/; what the     *)
(* Screen calls on them (findWidget, contains, absolutePosition, the       *)
(* default event handlers) is modelled from spec.md.                       *)
(* The model is the Linux/Windows build: get_pixel_ratio returns 1.0f and  *)
(* no code path of that build changes mPixelRatio.                         *)
EXTENDS Integers, Sequences, FiniteSets, TLC

VARIABLES
  children,      \* Screen::mChildren, back to front
  parentWindow,  \* Popup::mParentWindow of each popup
  focusPath,     \* Screen::mFocusPath, leaf first
  focused,       \* the widgets whose Widget::mFocused is set
  mousePos,      \* Screen::mMousePos
  mouseState,    \* Screen::mMouseState
  modifiers,     \* Screen::mModifiers
  dragActive,    \* Screen::mDragActive
  dragWidget,    \* Screen::mDragWidget
  cursor,        \* Screen::mCursor
  dragButton,    \* history: the button whose press began the capture, none when Idle
  crashed,       \* the process has ended abnormally
  stack,         \* the frames of a moveWindowToFront call run step by step
  call,          \* the operation that ran last, with its arguments
  events,        \* what that operation called on widgets and on the backend, in order
  ret,           \* what it returned
  mSize,         \* Widget::mSize of the Screen
  mFBSize,       \* Screen::mFBSize
  winSize,       \* backend: what ngGetWindowSize reports
  winFBSize,     \* backend: what ngGetFramebufferSize reports
  mVisible,      \* Widget::mVisible of the Screen
  hidden,        \* the widgets below the Screen whose Widget::mVisible is false
  now,           \* backend: what ngGetTime reports, in tenths of a time unit
  lastInteraction, \* Screen::mLastInteraction
  aborted,       \* abort() has been called
  escaped,       \* an exception has left a callback and reached the backend
  backendCursor  \* backend: the shape last given to ngSetCursor (the arrow before any call)

sizeVars == <<mSize, mFBSize, winSize, winFBSize>>
viewVars == <<mVisible, hidden>>
timeVars == <<now, lastInteraction>>
fateVars == <<aborted, escaped>>

vars == <<children, parentWindow, focusPath, focused, mousePos, mouseState,
          modifiers, dragActive, dragWidget, dragButton, cursor, crashed, stack,
          call, events, ret, sizeVars, viewVars, timeVars, fateVars, backendCursor>>

(***************************************************************************)
(* The widget universe.  null stands for nullptr.                          *)
(***************************************************************************)
null == "null"
Screen == "Screen"

\* Top-level floating windows and popups (direct children of the Screen when in the tree).
TopLevel == {"A", "M", "P", "Q"}
\* Every widget object of the model.
Widgets == {Screen, "A", "N", "B", "M", "P", "Q", "Win", "Btn"}
\* dynamic_cast<Popup *>(w) succeeds
Popups == {"P", "Q"}
\* dynamic_cast<Window *>(w) succeeds (Popup derives from Window)
Windows == {"A", "N", "M", "Win"} \cup Popups

IsWindow(w) == w \in Windows
IsPopup(w) == w \in Popups
\* Window::modal()
modal(w) == w = "M"

\* Widget::parent(): the Screen has none; N is a Window nested in A, B a button in N.
parent(w) ==
  CASE w = Screen -> null
    [] w \in TopLevel -> Screen
    [] w = "N" -> "A"
    [] w = "B" -> "N"
    [] w = "Win" -> Screen
    [] w = "Btn" -> "Win"
    [] OTHER -> null

\* Widget::children() of the widgets below the Screen (the Screen's own are the variable children).
kids(w) ==
  CASE w = "A" -> <<"N">>
    [] w = "N" -> <<"B">>
    [] w = "Win" -> <<"Btn">>
    [] OTHER -> <<>>

\* Widget::position(), relative to the parent
position(w) ==
  CASE w = Screen -> <<0, 0>>
    [] w = "A" -> <<1, 1>>
    [] w = "N" -> <<1, 1>>
    [] w = "B" -> <<1, 0>>
    [] w = "M" -> <<5, 5>>
    [] w = "P" -> <<4, 4>>
    [] w = "Q" -> <<6, 1>>
    [] w = "Win" -> <<2, 3>>
    [] w = "Btn" -> <<10, 10>>
    [] OTHER -> <<0, 0>>

\* Widget::size()
size(w) ==
  CASE w = Screen -> mSize
    [] w = "A" -> <<4, 4>>
    [] w = "N" -> <<2, 2>>
    [] w = "B" -> <<1, 1>>
    [] w = "M" -> <<2, 2>>
    [] w = "P" -> <<2, 2>>
    [] w = "Q" -> <<1, 1>>
    [] w = "Win" -> <<60, 60>>
    [] w = "Btn" -> <<20, 20>>
    [] OTHER -> <<0, 0>>

\* enum class Cursor
CursorArrow == 0
CursorHand == 3

\* Widget::cursor(): the button asks for the hand, everything else for the arrow
cursorOf(w) == IF w \in {"B", "Btn"} THEN CursorHand ELSE CursorArrow

VAdd(a, b) == <<a[1] + b[1], a[2] + b[2]>>
VSub(a, b) == <<a[1] - b[1], a[2] - b[2]>>

\* NG_RELEASE, NG_PRESS
NG_RELEASE == 0
NG_PRESS == 1
\* NG_MOUSE_BUTTON_1, NG_MOUSE_BUTTON_2
NG_MOUSE_BUTTON_1 == 0
NG_MOUSE_BUTTON_2 == 1

(***************************************************************************)
(* Bounds of the model.                                                    *)
(***************************************************************************)
\* NG_MOUSE_BUTTON_3
NG_MOUSE_BUTTON_3 == 2
\* NG_MOD_SHIFT
NG_MOD_SHIFT == 1
\* frames of moveWindowToFront the call stack holds before it overflows
MaxDepth == 6
\* the clock stops at this many tenths of a time unit
MaxTime == 12
\* tenths of a time unit after which a resting pointer shows a tooltip
TooltipWait == 6

\* NG_KEY_A
NG_KEY_A == 65
\* the keys and the code points the backend reports
Keys == {NG_KEY_A}
Codepoints == {97}

\* NG_MOUSE_BUTTON_LAST
NG_MOUSE_BUTTON_LAST == 7
\* no button: a number past the last one
NoButton == NG_MOUSE_BUTTON_LAST + 1
Buttons == {NG_MOUSE_BUTTON_1, NG_MOUSE_BUTTON_2, NG_MOUSE_BUTTON_3}
Actions == {NG_RELEASE, NG_PRESS}
Modifiers == {0, NG_MOD_SHIFT}

\* the window and framebuffer sizes the backend reports
Sizes == {<<0, 0>>, <<6, 6>>, <<8, 8>>}

\* the file names the backend reports dropped (count, filenames of dropCallbackEvent)
Drops == {<<>>, <<"a.txt">>, <<"a.txt", "b.txt">>}

\* the scroll offsets the backend reports (x, y of scrollCallbackEvent)
ScrollSteps == {<<0, 1>>, <<0, -1>>}

\* A larger window, holding the non-modal window Win (60 by 60 at (2, 3)) with the button
\* Btn at (10, 10) in it, 20 by 20: its size, and the raw cursor positions reported in it.
\* After the correction they are: on Btn at (15, 15), at (100, 100), on Win, at (0, 0).
LargeSize == <<200, 200>>
LargePoints == {<<16, 17>>, <<101, 102>>, <<6, 8>>, <<1, 2>>}

\* the size of the window the backend opened
ScreenSize == <<8, 8>>

\* The raw cursor positions the backend reports (x, y of cursorPosCallbackEvent).
\* After the correction they are: on the button B, on the modal window M, on the bare
\* Screen, and outside the Screen.
RawPoints == {<<4, 4>>, <<7, 8>>, <<1, 2>>, <<0, 0>>}

(***************************************************************************)
(* Sequences.                                                              *)
(***************************************************************************)
Range(s) == {s[i] : i \in 1 .. Len(s)}
Reverse(s) == [i \in 1 .. Len(s) |-> s[Len(s) + 1 - i]]
\* std::remove + erase
Remove(s, x) == SelectSeq(s, LAMBDA y : y # x)
IndexOf(s, x) == IF x \in Range(s) THEN CHOOSE i \in 1 .. Len(s) : s[i] = x ELSE 0


(***************************************************************************)
(* The widget tree and its geometry (Widget, Window and Popup are not in   *)
(* src/; these follow spec.md sections 3 and 4.1).                         *)
(***************************************************************************)
RECURSIVE InTree(_)
\* w is a live widget: it hangs, through its parents, under the Screen
InTree(w) ==
  IF w = Screen THEN TRUE
  ELSE IF w \notin Widgets THEN FALSE
  ELSE IF parent(w) = Screen THEN w \in Range(children)
  ELSE InTree(parent(w))

\* the widgets currently in the tree
Live == {w \in Widgets : InTree(w)}

\* Widget::children() of any widget
childrenOf(w) == IF w = Screen THEN children ELSE kids(w)

RECURSIVE absolutePosition(_)
\* Widget::absolutePosition(): the sum of the positions up to the root
absolutePosition(w) ==
  IF w = null THEN <<0, 0>>
  ELSE IF parent(w) = null THEN position(w)
  ELSE VAdd(absolutePosition(parent(w)), position(w))

\* Widget::contains(p), p in the coordinates of w's parent
contains(w, p) ==
  LET d == VSub(p, position(w))
  IN d[1] >= 0 /\ d[2] >= 0 /\ d[1] < size(w)[1] /\ d[2] < size(w)[2]

\* Widget::visible()
visible(w) == IF w = Screen THEN mVisible ELSE w \notin hidden

RECURSIVE findIn(_, _)
RECURSIVE findFirst(_, _, _)
\* the children of ch from index i down to 1 (frontmost first): the first match
findFirst(ch, i, q) ==
  IF i = 0 THEN null
  ELSE LET r == findIn(ch[i], q)
       IN IF r # null THEN r ELSE findFirst(ch, i - 1, q)

\* A variant of findIn: the visibility of the node is not looked at.
findInUnseen(w, p) ==
  IF ~contains(w, p) THEN null
  ELSE LET r == findFirst(childrenOf(w), Len(childrenOf(w)), VSub(p, position(w)))
       IN IF r # null THEN r ELSE w

\* Widget::findWidget(p) of widget w, p in the coordinates of w's parent: nothing outside w
\* or when w is invisible; else the first match among the children, else w
findIn(w, p) ==
  IF ~(contains(w, p) /\ visible(w)) THEN null
  ELSE LET r == findFirst(childrenOf(w), Len(childrenOf(w)), VSub(p, position(w)))
       IN IF r # null THEN r ELSE w

\* Screen::findWidget(p)
findWidget(p) == findIn(Screen, p)

\* Screen::findWidget(p) when the Screen's size is sz
findWidgetSized(sz, p) ==
  LET d == VSub(p, position(Screen))
  IN IF ~(d[1] >= 0 /\ d[2] >= 0 /\ d[1] < sz[1] /\ d[2] < sz[2] /\ visible(Screen))
       THEN null
       ELSE LET r == findFirst(children, Len(children), d)
            IN IF r # null THEN r ELSE Screen

\* Widget::tooltip(): the button has one
tooltip(w) == IF w = "B" THEN "press me" ELSE ""

(***************************************************************************)
(* What an operation calls, in order: the entries of events.               *)
(***************************************************************************)
NoEvent ==
  [k |-> "none", w |-> null, p |-> <<0, 0>>, rel |-> <<0, 0>>, button |-> 0,
   down |-> FALSE, state |-> 0, mods |-> 0, shape |-> 0, r |-> FALSE,
   key |-> 0, action |-> 0, files |-> <<>>, alpha |-> 0]
\* findWidget(p)
EvFind(p) == [NoEvent EXCEPT !.k = "findWidget", !.p = p]
\* ngSetCursor(mPlatformWindow, shape)
EvSetCursor(c) == [NoEvent EXCEPT !.k = "setCursor", !.shape = c]
\* w->mouseDragEvent(p, rel, state, mods), which returned r
EvDrag(w, p, rel, st, m, r) ==
  [NoEvent EXCEPT !.k = "drag", !.w = w, !.p = p, !.rel = rel, !.state = st, !.mods = m,
                  !.r = r]
\* w->mouseMotionEvent(p, rel, state, mods), which returned r
EvMotion(w, p, rel, st, m, r) ==
  [NoEvent EXCEPT !.k = "motion", !.w = w, !.p = p, !.rel = rel, !.state = st, !.mods = m,
                  !.r = r]
\* w->mouseButtonEvent(p, button, down, mods), which returned r
EvButton(w, p, b, down, m, r) ==
  [NoEvent EXCEPT !.k = "button", !.w = w, !.p = p, !.button = b, !.down = down, !.mods = m,
                  !.r = r]
\* w->focusEvent(gained)
EvFocus(w, gained) == [NoEvent EXCEPT !.k = "focus", !.w = w, !.down = gained]
\* w->keyboardEvent(key, scancode, action, mods), which returned r
EvKey(w, key, action, m, r) ==
  [NoEvent EXCEPT !.k = "key", !.w = w, !.key = key, !.action = action, !.mods = m, !.r = r]
\* w->keyboardCharacterEvent(codepoint), which returned r
EvChar(w, codepoint, r) == [NoEvent EXCEPT !.k = "char", !.w = w, !.key = codepoint, !.r = r]
\* w->resizeEvent(size), which returned r
EvResize(w, sz, r) == [NoEvent EXCEPT !.k = "resize", !.w = w, !.p = sz, !.r = r]
\* a call on the backend or the renderer, or of the drawContents hook
EvBackend(k) == [NoEvent EXCEPT !.k = k]
\* nvgBeginFrame(mNVGContext, width, height, mPixelRatio)
EvBeginFrame(sz) == [NoEvent EXCEPT !.k = "beginFrame", !.p = sz]
\* draw(mNVGContext): the Screen paints the widget tree
EvDraw(w) == [NoEvent EXCEPT !.k = "draw", !.w = w]
\* the tooltip of w painted with nvgGlobalAlpha(alpha), alpha in hundredths
EvTooltip(w, alpha) == [NoEvent EXCEPT !.k = "tooltip", !.w = w, !.alpha = alpha]
\* dropEvent(filenames) of the Screen, which returned r
EvDrop(w, files, r) == [NoEvent EXCEPT !.k = "drop", !.w = w, !.files = files, !.r = r]
\* w->scrollEvent(p, rel), which returned r
EvScroll(w, p, rel, r) == [NoEvent EXCEPT !.k = "scroll", !.w = w, !.p = p, !.rel = rel, !.r = r]

\* the backend's cursor after the calls evs: the shape of the last ngSetCursor, else as before
SentShape(evs, before) ==
  LET at == {i \in 1 .. Len(evs) : evs[i].k = "setCursor"}
  IN IF at = {} THEN before ELSE evs[CHOOSE i \in at : \A j \in at : j <= i].shape

(***************************************************************************)
(* Screen::moveWindowToFront as a function of the children sequence.       *)
(***************************************************************************)
\* the index the first loop leaves in baseIndex (the last position of window)
BaseIndex(ch, window) ==
  LET at == {i \in 1 .. Len(ch) : ch[i] = window}
  IN IF at = {} THEN 1 ELSE CHOOSE i \in at : \A j \in at : j <= i

\* A variant of Misplaced: the test "index < baseIndex" reads "index != baseIndex".
MisplacedAnywhere(ch, pw, window) ==
  {i \in 1 .. Len(ch) :
     /\ IsPopup(ch[i])
     /\ pw[ch[i]] = window
     /\ i # BaseIndex(ch, window)}

\* the indices the second loop would stop at
Misplaced(ch, pw, window) ==
  {i \in 1 .. Len(ch) :
     /\ IsPopup(ch[i])
     /\ pw[ch[i]] = window
     /\ i < BaseIndex(ch, window)}

\* A variant of FirstMisplaced: the scan runs from the end of the children.
LastMisplaced(ch, pw, window) ==
  LET mis == Misplaced(ch, pw, window)
  IN IF mis = {} THEN null ELSE ch[CHOOSE i \in mis : \A j \in mis : i >= j]

\* the popup the second loop finds first, or null
FirstMisplaced(ch, pw, window) ==
  LET mis == Misplaced(ch, pw, window)
  IN IF mis = {} THEN null ELSE ch[CHOOSE i \in mis : \A j \in mis : i <= j]

\* A variant of ToBack: the window is re-inserted at the beginning.
ToFront(ch, window) == <<window>> \o Remove(ch, window)

\* mChildren.erase(remove(..., window)); mChildren.push_back(window)
ToBack(ch, window) == Append(Remove(ch, window), window)

RECURSIVE moveWindowToFront(_, _, _)
RECURSIVE mwtfLoop(_, _, _)
\* A variant of mwtfLoop: one pass only, the scan is not restarted ("changed" is not set).
mwtfLoopOnce(ch, pw, window) ==
  LET p == FirstMisplaced(ch, pw, window)
  IN IF p = null THEN ch ELSE moveWindowToFront(ch, pw, p)

\* A variant of mwtfLoop: the popup found is re-appended without the recursive call.
mwtfLoopFlat(ch, pw, window) ==
  LET p == FirstMisplaced(ch, pw, window)
  IN IF p = null THEN ch
     ELSE mwtfLoop(ToBack(ch, p), pw, window)

\* the do-while loop: fix the first misplaced popup and scan again
mwtfLoop(ch, pw, window) ==
  LET p == FirstMisplaced(ch, pw, window)
  IN IF p = null THEN ch
     ELSE mwtfLoop(moveWindowToFront(ch, pw, p), pw, window)

\* Screen::moveWindowToFront(window) on the children sequence ch
moveWindowToFront(ch, pw, window) == mwtfLoop(ToBack(ch, window), pw, window)

(***************************************************************************)
(* Screen::updateFocus.                                                    *)
(***************************************************************************)
RECURSIVE Chain(_)
\* the while loop: widget, its parent, ... up to the root
Chain(w) == IF w = null THEN <<>> ELSE <<w>> \o Chain(parent(w))

\* A variant of FocusWindow: the first Window of the chain is kept ("if (!window && ...)").
FocusWindowNearest(path) ==
  LET ws == {i \in 1 .. Len(path) : IsWindow(path[i])}
  IN IF ws = {} THEN null ELSE path[CHOOSE i \in ws : \A j \in ws : i <= j]

\* the value the while loop leaves in window: the last Window of the chain
FocusWindow(path) ==
  LET ws == {i \in 1 .. Len(path) : IsWindow(path[i])}
  IN IF ws = {} THEN null ELSE path[CHOOSE i \in ws : \A j \in ws : j <= i]

\* A variant of FocusLost: the test "if (!w->focused()) continue" is inverted.
FocusLostInverted ==
  LET old == SelectSeq(focusPath, LAMBDA w : w \notin focused)
  IN [i \in 1 .. Len(old) |-> EvFocus(old[i], FALSE)]

\* the focusEvent(false) calls of the first loop
FocusLost ==
  LET old == SelectSeq(focusPath, LAMBDA w : w \in focused)
  IN [i \in 1 .. Len(old) |-> EvFocus(old[i], FALSE)]

\* A variant of FocusGained: the path is walked forwards (begin to end).
FocusGainedLeafFirst(path) == [i \in 1 .. Len(path) |-> EvFocus(path[i], TRUE)]

\* the focusEvent(true) calls of the last loop
FocusGained(path) ==
  LET rev == Reverse(path)
  IN [i \in 1 .. Len(rev) |-> EvFocus(rev[i], TRUE)]

\* the calls updateFocus(widget) makes
updateFocusEvents(widget) == FocusLost \o FocusGained(Chain(widget))

\* mFocused of every widget after updateFocus(widget) (Widget::focusEvent stores its argument)
updateFocusFocused(widget) == (focused \ Range(focusPath)) \cup Range(Chain(widget))

\* mChildren after updateFocus(widget)
updateFocusChildren(widget) ==
  LET window == FocusWindow(Chain(widget))
  IN IF window # null THEN moveWindowToFront(children, parentWindow, window)
     ELSE children


(***************************************************************************)
(* The state after Screen::Screen() and Screen::initialize().              *)
(***************************************************************************)
\* call: the operation, its arguments, and mChildren as it was when the operation began
NoCall ==
  [op |-> "none", w |-> null, p |-> <<0, 0>>, button |-> 0, action |-> 0, mods |-> 0,
   pre |-> <<>>, raised |-> FALSE]
Call(op) == [NoCall EXCEPT !.op = op]

\* the fields initialize() sets, and the empty containers of a fresh Screen
InitScreen ==
  /\ focusPath = <<>>
  /\ focused = {}
  /\ mousePos = <<0, 0>>
  /\ mouseState = 0
  /\ modifiers = 0
  /\ dragActive = FALSE
  /\ dragWidget = null
  /\ dragButton = NoButton
  /\ cursor = CursorArrow
  /\ crashed = FALSE
  /\ stack = <<>>
  /\ call = NoCall
  /\ events = <<>>
  /\ ret = FALSE
  /\ aborted = FALSE
  /\ escaped = FALSE
  /\ backendCursor = CursorArrow

\* the window the backend gave to initialize(): its size, the clock, and a visible tree
InitWindow ==
  /\ winSize = ScreenSize
  /\ winFBSize = ScreenSize
  /\ mSize = winSize
  /\ mFBSize = winFBSize
  /\ mVisible = TRUE
  /\ hidden = {}
  /\ now = 0
  /\ lastInteraction = now

\* the process is running
Alive == ~crashed /\ ~aborted

\* The application has built window A (holding the nested window N and its button B)
\* and the modal window M.
Init ==
  /\ children = <<"A", "M">>
  /\ parentWindow = [w \in Popups |-> IF w = "P" THEN "A" ELSE "P"]
  /\ InitScreen
  /\ InitWindow

(***************************************************************************)
(* mMouseState as a bit mask.                                              *)
(***************************************************************************)
RECURSIVE Pow2(_)
Pow2(n) == IF n = 0 THEN 1 ELSE 2 * Pow2(n - 1)
TestBit(m, b) == (m \div Pow2(b)) % 2 = 1
\* m | (1 << b)
SetBit(m, b) == IF TestBit(m, b) THEN m ELSE m + Pow2(b)
\* m & ~(1 << b)
ClearBit(m, b) == IF TestBit(m, b) THEN m - Pow2(b) ELSE m

(***************************************************************************)
(* Screen::cursorPosCallbackEvent(x, y)                                    *)
(***************************************************************************)
\* p after "p /= mPixelRatio" (the ratio is 1) and "p -= Vector2i(1, 2)"
CorrectedPos(xy) == VSub(xy, <<1, 2>>)

\* "widget != nullptr && widget->cursor() != mCursor": the new mCursor
HoverCursor(w) == IF w # null /\ cursorOf(w) # cursor THEN cursorOf(w) ELSE cursor
\* A variant of HoverCursorEvents: the test "widget->cursor() != mCursor" is missing.
HoverCursorEventsAlways(w) ==
  IF w # null THEN <<EvSetCursor(cursorOf(w))>> ELSE <<>>

\* ... and the ngSetCursor call it makes
HoverCursorEvents(w) ==
  IF w # null /\ cursorOf(w) # cursor THEN <<EvSetCursor(cursorOf(w))>> ELSE <<>>

\* A variant of MotionEvents: the test "if (!ret)" is missing.
MotionEventsAlways(p, consumed, motionRet) ==
  <<EvMotion(Screen, p, VSub(p, mousePos), mouseState, modifiers, motionRet)>>

\* "if (!ret) ret = mouseMotionEvent(...)": the call made when ret is still false
MotionEvents(p, consumed, motionRet) ==
  IF ~consumed
    THEN <<EvMotion(Screen, p, VSub(p, mousePos), mouseState, modifiers, motionRet)>>
    ELSE <<>>

\* A variant of DragEvents: the position is taken relative to the captured widget itself.
DragEventsOwnOrigin(p, dragRet) ==
  <<EvDrag(dragWidget, VSub(p, absolutePosition(dragWidget)),
           VSub(p, mousePos), mouseState, modifiers, dragRet)>>

\* A variant of DragEvents: the delta is the new position itself, not the move made.
DragEventsNoDelta(p, dragRet) ==
  <<EvDrag(dragWidget, VSub(p, absolutePosition(parent(dragWidget))),
           p, mouseState, modifiers, dragRet)>>

\* "ret = mDragWidget->mouseDragEvent(p - parent->absolutePosition(), p - mMousePos, ...)"
DragEvents(p, dragRet) ==
  <<EvDrag(dragWidget, VSub(p, absolutePosition(parent(dragWidget))),
           VSub(p, mousePos), mouseState, modifiers, dragRet)>>

\* A call through mDragWidget when it is null or points to a destroyed widget ends the process.
Crash(c) ==
  /\ crashed' = TRUE
  /\ call' = c
  /\ events' = <<>>
  /\ ret' = FALSE

cursorPosCallbackEvent(xy) ==
  LET p == CorrectedPos(xy)
      c == [Call("cursorPos") EXCEPT !.p = xy]
  IN
  /\ Alive
  /\ stack = <<>>
  /\ \/ /\ ~dragActive
        /\ \E motionRet \in BOOLEAN :
             /\ cursor' = HoverCursor(findWidget(p))
             /\ events' = <<EvFind(p)>> \o HoverCursorEvents(findWidget(p))
                            \o MotionEvents(p, FALSE, motionRet)
             /\ ret' = motionRet
        /\ mousePos' = p
        /\ call' = c
        /\ UNCHANGED crashed
     \/ /\ dragActive
        /\ dragWidget # null
        \* a destroyed widget may still answer as it did while alive
        /\ \E dragRet \in BOOLEAN, motionRet \in BOOLEAN :
             /\ events' = DragEvents(p, dragRet) \o MotionEvents(p, dragRet, motionRet)
             /\ ret' = IF dragRet THEN TRUE ELSE motionRet
        /\ mousePos' = p
        /\ call' = c
        /\ UNCHANGED <<cursor, crashed>>
     \/ /\ dragActive
        /\ ~InTree(dragWidget)
        /\ Crash(c)
        /\ UNCHANGED <<cursor, mousePos>>
  /\ UNCHANGED <<children, parentWindow, focusPath, focused, mouseState,
                 modifiers, dragActive, dragWidget, dragButton, stack>>
  /\ lastInteraction' = now
  /\ backendCursor' = SentShape(events', backendCursor)
  /\ UNCHANGED <<sizeVars, viewVars, now, fateVars>>


(***************************************************************************)
(* Screen::mouseButtonCallbackEvent(button, action, modifiers)             *)
(***************************************************************************)
\* A variant of SuppressedByModal: the size test reads "mFocusPath.size() > 2".
SuppressedByModalDeep ==
  /\ Len(focusPath) > 2
  /\ LET window == focusPath[Len(focusPath) - 1]
     IN IsWindow(window) /\ modal(window) /\ ~contains(window, mousePos)

\* lines 213-220 and 290-297: the second-from-top entry of mFocusPath is a modal Window
\* that does not contain mMousePos
SuppressedByModal ==
  /\ Len(focusPath) > 1
  /\ LET window == focusPath[Len(focusPath) - 1]
     IN IsWindow(window) /\ modal(window) /\ ~contains(window, mousePos)

\* A variant of NewMouseState: the press sets no bit.
NewMouseStateClearsOnly(button, action) ==
  IF action = NG_PRESS THEN mouseState ELSE ClearBit(mouseState, button)

\* lines 222-225
NewMouseState(button, action) ==
  IF action = NG_PRESS THEN SetBit(mouseState, button) ELSE ClearBit(mouseState, button)

\* A variant of StartsDrag: the press of any button qualifies.
StartsDragAnyButton(button, action) == action = NG_PRESS

\* A variant of StartsDrag: only NG_MOUSE_BUTTON_1 qualifies.
StartsDragButton1Only(button, action) ==
  action = NG_PRESS /\ button = NG_MOUSE_BUTTON_1

\* line 239: the press that may start a drag
StartsDrag(button, action) ==
  action = NG_PRESS /\ (button = NG_MOUSE_BUTTON_1 \/ button = NG_MOUSE_BUTTON_2)

\* lines 240-242: the widget a qualifying press captures (never the Screen)
Captured(hit) == IF hit = Screen THEN null ELSE hit

\* A variant of DropEvents: the test "dropWidget != mDragWidget" is missing.
DropEventsAlways(button, action, mods, r) ==
  IF dragActive /\ action = NG_RELEASE
    THEN <<EvButton(dragWidget, VSub(mousePos, absolutePosition(parent(dragWidget))),
                    button, FALSE, mods, r)>>
    ELSE <<>>

\* lines 228-232: the release the captured widget is sent when the drop lands elsewhere
DropEvents(button, action, mods, r) ==
  IF dragActive /\ action = NG_RELEASE /\ findWidget(mousePos) # dragWidget
    THEN <<EvButton(dragWidget, VSub(mousePos, absolutePosition(parent(dragWidget))),
                    button, FALSE, mods, r)>>
    ELSE <<>>

mouseButtonCallbackEvent(button, action, mods) ==
  LET c == [Call("mouseButton") EXCEPT !.button = button, !.action = action, !.mods = mods]
      dropWidget == findWidget(mousePos)
      press == StartsDrag(button, action)
      newDrag == IF press THEN Captured(findWidget(mousePos)) ELSE null
      clearsFocus == press /\ newDrag = null
  IN
  /\ Alive
  /\ stack = <<>>
  /\ modifiers' = mods
  /\ \/ /\ SuppressedByModal
        /\ call' = c
        /\ events' = <<>>
        /\ ret' = FALSE
        /\ UNCHANGED <<focusPath, focused, mouseState, dragActive, dragWidget,
                       dragButton, cursor, crashed>>
     \/ /\ ~SuppressedByModal
        /\ dragActive /\ action = NG_RELEASE /\ dropWidget # dragWidget
        /\ ~InTree(dragWidget)
        /\ Crash(c)
        /\ mouseState' = NewMouseState(button, action)
        /\ UNCHANGED <<focusPath, focused, dragActive, dragWidget, dragButton, cursor>>
     \/ /\ ~SuppressedByModal
        /\ (dragActive /\ action = NG_RELEASE /\ dropWidget # dragWidget)
             => dragWidget # null
        /\ mouseState' = NewMouseState(button, action)
        /\ cursor' = HoverCursor(dropWidget)
        /\ dragWidget' = newDrag
        /\ dragActive' = (newDrag # null)
        /\ dragButton' = IF newDrag # null THEN button ELSE NoButton
        /\ focusPath' = IF clearsFocus THEN <<>> ELSE focusPath
        /\ focused' = IF clearsFocus THEN updateFocusFocused(null) ELSE focused
        /\ \E dropRet \in (IF DropEvents(button, action, mods, TRUE) # <<>>
                          THEN BOOLEAN ELSE {FALSE}),
              buttonRet \in BOOLEAN :
             /\ events' = <<EvFind(mousePos)>>
                            \o DropEvents(button, action, mods, dropRet)
                            \o HoverCursorEvents(dropWidget)
                            \o (IF press THEN <<EvFind(mousePos)>> ELSE <<>>)
                            \o (IF clearsFocus THEN updateFocusEvents(null) ELSE <<>>)
                            \o <<EvButton(Screen, mousePos, button, action = NG_PRESS,
                                          mods, buttonRet)>>
             /\ ret' = buttonRet
        /\ call' = c
        /\ UNCHANGED crashed
  /\ UNCHANGED <<children, parentWindow, mousePos, stack>>
  /\ lastInteraction' = now
  /\ backendCursor' = SentShape(events', backendCursor)
  /\ UNCHANGED <<sizeVars, viewVars, now, fateVars>>

(***************************************************************************)
(* Screen::keyCallbackEvent and Screen::charCallbackEvent, with the        *)
(* Screen::keyboardEvent and Screen::keyboardCharacterEvent they call.     *)
(***************************************************************************)
\* A variant of KeyOrder: the path is walked forwards (begin() to end() - 1).
KeyOrderLeafFirst ==
  IF focusPath = <<>> THEN <<>>
  ELSE SelectSeq(SubSeq(focusPath, 1, Len(focusPath) - 1), LAMBDA w : w \in focused)

\* "for (it = mFocusPath.rbegin() + 1; it != mFocusPath.rend(); ++it) if ((*it)->focused() ..."
\* : the widgets the loop offers the event to, in its order
KeyOrder ==
  IF focusPath = <<>> THEN <<>>
  ELSE SelectSeq(Tail(Reverse(focusPath)), LAMBDA w : w \in focused)

\* the widgets the loop reaches when the taker-th one returns true (0: none does)
KeyReached(taker) == IF taker = 0 THEN KeyOrder ELSE SubSeq(KeyOrder, 1, taker)

\* Screen::keyboardEvent: the calls made
keyboardEvent(key, action, mods, taker) ==
  LET to == KeyReached(taker)
  IN [i \in 1 .. Len(to) |-> EvKey(to[i], key, action, mods, i = taker)]

\* Screen::keyboardCharacterEvent: the calls made
keyboardCharacterEvent(codepoint, taker) ==
  LET to == KeyReached(taker)
  IN [i \in 1 .. Len(to) |-> EvChar(to[i], codepoint, i = taker)]

keyCallbackEvent(key, action, mods) ==
  /\ Alive
  /\ stack = <<>>
  /\ lastInteraction' = now
  /\ call' = [Call("key") EXCEPT !.button = key, !.action = action, !.mods = mods]
  /\ \E taker \in 0 .. Len(KeyOrder) :
       /\ events' = keyboardEvent(key, action, mods, taker)
       /\ ret' = (taker # 0)
  /\ UNCHANGED <<children, parentWindow, focusPath, focused, mousePos, mouseState,
                 modifiers, dragActive, dragWidget, dragButton, cursor, crashed, stack,
                 sizeVars, viewVars, now, fateVars, backendCursor>>

charCallbackEvent(codepoint) ==
  /\ Alive
  /\ stack = <<>>
  /\ lastInteraction' = now
  /\ call' = [Call("char") EXCEPT !.button = codepoint]
  /\ \E taker \in 0 .. Len(KeyOrder) :
       /\ events' = keyboardCharacterEvent(codepoint, taker)
       /\ ret' = (taker # 0)
  /\ UNCHANGED <<children, parentWindow, focusPath, focused, mousePos, mouseState,
                 modifiers, dragActive, dragWidget, dragButton, cursor, crashed, stack,
                 sizeVars, viewVars, now, fateVars, backendCursor>>

(***************************************************************************)
(* Screen::scrollCallbackEvent(x, y)                                       *)
(***************************************************************************)
scrollCallbackEvent(rel) ==
  /\ Alive
  /\ stack = <<>>
  /\ lastInteraction' = now
  /\ call' = [Call("scroll") EXCEPT !.p = rel]
  /\ IF SuppressedByModal
       THEN events' = <<>> /\ ret' = FALSE
       ELSE \E scrollRet \in BOOLEAN :
              /\ events' = <<EvScroll(Screen, mousePos, rel, scrollRet)>>
              /\ ret' = scrollRet
  /\ UNCHANGED <<children, parentWindow, focusPath, focused, mousePos, mouseState,
                 modifiers, dragActive, dragWidget, dragButton, cursor, crashed, stack,
                 sizeVars, viewVars, now, fateVars, backendCursor>>

(***************************************************************************)
(* Screen::resizeCallbackEvent(width, height)                              *)
(***************************************************************************)
\* A variant of ResizeRejected: the framebuffer size just queried is the one tested.
ResizeRejectedQueried(fbSize, sz) == fbSize = <<0, 0>> \/ sz = <<0, 0>>

\* line 315: "mFBSize == Vector2i(0, 0) || size == Vector2i(0, 0)"
ResizeRejected(fbSize, sz) == mFBSize = <<0, 0>> \/ sz = <<0, 0>>

resizeCallbackEvent ==
  LET fbSize == winFBSize
      \* "size /= mPixelRatio", the ratio being 1
      sz == winSize
      queries == <<EvBackend("getFramebufferSize"), EvBackend("getWindowSize")>>
  IN
  /\ Alive
  /\ stack = <<>>
  /\ call' = Call("resize")
  /\ IF ResizeRejected(fbSize, sz)
       THEN /\ events' = queries
            /\ ret' = FALSE
            /\ UNCHANGED <<mSize, mFBSize, lastInteraction>>
       ELSE /\ mFBSize' = fbSize
            /\ mSize' = sz
            /\ lastInteraction' = now
            /\ \E resizeRet \in BOOLEAN :
                 /\ events' = Append(queries, EvResize(Screen, sz, resizeRet))
                 /\ ret' = resizeRet
  /\ UNCHANGED <<children, parentWindow, focusPath, focused, mousePos, mouseState,
                 modifiers, dragActive, dragWidget, dragButton, cursor, crashed, stack,
                 winSize, winFBSize, viewVars, now, fateVars, backendCursor>>

\* the window system gives the window a new size and a new framebuffer size
windowResized(sz, fbSize) ==
  /\ Alive
  /\ stack = <<>>
  /\ winSize' = sz
  /\ winFBSize' = fbSize
  /\ call' = [Call("windowResized") EXCEPT !.p = sz]
  /\ events' = <<>>
  /\ ret' = FALSE
  /\ UNCHANGED <<children, parentWindow, focusPath, focused, mousePos, mouseState,
                 modifiers, dragActive, dragWidget, dragButton, cursor, crashed, stack,
                 mSize, mFBSize, viewVars, timeVars, fateVars, backendCursor>>

(***************************************************************************)
(* Screen::drawAll(), with the Screen::drawWidgets() it calls.             *)
(***************************************************************************)
\* "std::min(1.0, 2 * (elapsed - 0.5f)) * 0.8", elapsed in tenths, the result in hundredths
TooltipAlpha(elapsed) ==
  LET ramp == 2 * (elapsed - 5)
  IN (IF ramp < 10 THEN ramp ELSE 10) * 8

\* A variant of TooltipDue: the elapsed time is not tested.
TooltipDueAtOnce(elapsed) == TRUE

\* A variant of TooltipDue: the test reads "elapsed >= 0.5f".
TooltipDueAtThreshold(elapsed) == elapsed >= 5

\* line 105: "elapsed > 0.5f"
TooltipDue(elapsed) == elapsed > 5

\* A variant of TooltipEvents: the overlay is painted for a widget without tooltip text too.
TooltipEventsAnyWidget(sz) ==
  LET elapsed == now - lastInteraction
      widget == findWidgetSized(sz, mousePos)
  IN IF ~TooltipDue(elapsed) THEN <<>>
     ELSE <<EvFind(mousePos)>>
            \o (IF widget # null
                  THEN <<EvTooltip(widget, TooltipAlpha(elapsed))>> ELSE <<>>)

\* lines 103-149: the tooltip overlay of a frame drawn when the Screen's size is sz
TooltipEvents(sz) ==
  LET elapsed == now - lastInteraction
      widget == findWidgetSized(sz, mousePos)
  IN IF ~TooltipDue(elapsed) THEN <<>>
     ELSE <<EvFind(mousePos)>>
            \o (IF widget # null /\ tooltip(widget) # ""
                  THEN <<EvTooltip(widget, TooltipAlpha(elapsed))>> ELSE <<>>)

\* line 80-81: drawWidgets goes on past its first statement
drawWidgetsRuns == mVisible

\* A variant of drawAllUnchanged: the frame counts as an interaction.
drawAllStampsTime ==
  /\ lastInteraction' = now
  /\ UNCHANGED <<children, parentWindow, focusPath, focused, mousePos, mouseState,
                 modifiers, dragActive, dragWidget, dragButton, cursor, crashed, stack,
                 winSize, winFBSize, viewVars, now, fateVars, backendCursor>>

\* lines 72-152: what no statement of drawAll and drawWidgets assigns
drawAllUnchanged ==
  UNCHANGED <<children, parentWindow, focusPath, focused, mousePos, mouseState,
              modifiers, dragActive, dragWidget, dragButton, cursor, crashed, stack,
              winSize, winFBSize, viewVars, timeVars, fateVars, backendCursor>>

drawAll ==
  LET \* lines 85-90: both sizes end as the window size, the ratio being 1
      sz == winSize
      hooks == <<EvBackend("touch"), EvBackend("drawContents")>>
  IN
  /\ Alive
  /\ stack = <<>>
  /\ call' = Call("drawAll")
  /\ ret' = FALSE
  /\ IF ~drawWidgetsRuns
       THEN /\ events' = hooks
            /\ UNCHANGED <<mSize, mFBSize>>
       ELSE /\ mSize' = sz
            /\ mFBSize' = sz
            /\ events' = hooks
                 \o <<EvBackend("makeContextCurrent"), EvBackend("getFramebufferSize"),
                      EvBackend("getWindowSize"), EvBeginFrame(sz), EvDraw(Screen)>>
                 \o TooltipEvents(sz)
                 \o <<EvBackend("endFrame")>>
  /\ drawAllUnchanged

\* the clock of the backend advances by d tenths
Tick(d) ==
  /\ Alive
  /\ stack = <<>>
  /\ now + d <= MaxTime
  /\ now' = now + d
  /\ call' = Call("tick")
  /\ events' = <<>>
  /\ ret' = FALSE
  /\ UNCHANGED <<children, parentWindow, focusPath, focused, mousePos, mouseState,
                 modifiers, dragActive, dragWidget, dragButton, cursor, crashed, stack,
                 sizeVars, viewVars, lastInteraction, fateVars, backendCursor>>

\* Widget::setVisible(v) called on w by the application
setVisible(w, v) ==
  /\ Alive
  /\ stack = <<>>
  /\ mVisible' = IF w = Screen THEN v ELSE mVisible
  /\ hidden' = IF w = Screen THEN hidden
               ELSE IF v THEN hidden \ {w} ELSE hidden \cup {w}
  /\ call' = [Call("setVisible") EXCEPT !.w = w]
  /\ events' = <<>>
  /\ ret' = FALSE
  /\ UNCHANGED <<children, parentWindow, focusPath, focused, mousePos, mouseState,
                 modifiers, dragActive, dragWidget, dragButton, cursor, crashed, stack,
                 sizeVars, timeVars, fateVars, backendCursor>>

(***************************************************************************)
(* Screen::dropCallbackEvent(count, filenames)                             *)
(***************************************************************************)
dropCallbackEvent(files) ==
  /\ Alive
  /\ stack = <<>>
  /\ call' = Call("drop")
  /\ \E dropRet \in BOOLEAN :
       /\ events' = <<EvDrop(Screen, files, dropRet)>>
       /\ ret' = dropRet
  /\ UNCHANGED <<children, parentWindow, focusPath, focused, mousePos, mouseState,
                 modifiers, dragActive, dragWidget, dragButton, cursor, crashed, stack,
                 sizeVars, viewVars, timeVars, fateVars, backendCursor>>

(***************************************************************************)
(* A handler that raises an error instead of returning.                    *)
(***************************************************************************)
Callbacks == {"cursorPos", "mouseButton", "key", "char", "drop", "scroll", "resize"}

\* callback op, run in the current state, calls a handler of a widget or of the Screen
CallsHandler(op) ==
  CASE op = "cursorPos" -> dragActive => InTree(dragWidget)
    [] op = "mouseButton" -> ~SuppressedByModal /\ (dragActive => InTree(dragWidget))
    [] op = "key" -> KeyOrder # <<>>
    [] op = "char" -> KeyOrder # <<>>
    [] op = "drop" -> TRUE
    [] op = "scroll" -> ~SuppressedByModal
    [] op = "resize" -> ~ResizeRejected(winFBSize, winSize)
    [] OTHER -> FALSE

\* the body of callback op is a try block with "catch (const std::exception &e)"
HasTryBlock(op) == op # "drop"

\* Callback op calls a handler that throws: an exception derived from std::exception
\* (std) or any other object.  A matching catch logs it and calls abort(), which ends the
\* process (the fields of the Screen are left as they were: nothing reads them again).
\* Without one the exception unwinds into the backend that made the call, and what comes
\* of the process is the backend's business.
callbackRaises(op, std) ==
  /\ Alive
  /\ stack = <<>>
  /\ CallsHandler(op)
  /\ call' = [Call(op) EXCEPT !.raised = TRUE]
  /\ events' = <<>>
  /\ ret' = FALSE
  /\ IF HasTryBlock(op) /\ std
       THEN aborted' = TRUE /\ UNCHANGED <<escaped, crashed>>
       ELSE escaped' = TRUE /\ crashed' \in BOOLEAN /\ UNCHANGED aborted
  /\ UNCHANGED <<children, parentWindow, focusPath, focused, mousePos, mouseState,
                 modifiers, dragActive, dragWidget, dragButton, cursor, stack,
                 sizeVars, viewVars, timeVars, backendCursor>>

(***************************************************************************)
(* Screen::updateFocus(widget), called by the application or by a widget   *)
(* (Widget::requestFocus).                                                 *)
(***************************************************************************)
updateFocus(widget) ==
  /\ Alive
  /\ stack = <<>>
  /\ focusPath' = Chain(widget)
  /\ focused' = updateFocusFocused(widget)
  /\ children' = updateFocusChildren(widget)
  /\ events' = updateFocusEvents(widget)
  /\ call' = [Call("updateFocus") EXCEPT !.w = widget, !.pre = children]
  /\ ret' = FALSE
  /\ UNCHANGED <<parentWindow, mousePos, mouseState, modifiers, dragActive,
                 dragWidget, dragButton, cursor, crashed, stack>>
  /\ UNCHANGED <<sizeVars, viewVars, timeVars, fateVars, backendCursor>>

(***************************************************************************)
(* Screen::moveWindowToFront(window), called by the application.           *)
(***************************************************************************)
moveWindowToFrontCall(window) ==
  /\ Alive
  /\ stack = <<>>
  /\ children' = moveWindowToFront(children, parentWindow, window)
  /\ call' = [Call("moveWindowToFront") EXCEPT !.w = window, !.pre = children]
  /\ events' = <<>>
  /\ ret' = FALSE
  /\ UNCHANGED <<parentWindow, focusPath, focused, mousePos, mouseState,
                 modifiers, dragActive, dragWidget, dragButton, cursor, crashed, stack>>
  /\ UNCHANGED <<sizeVars, viewVars, timeVars, fateVars, backendCursor>>

(***************************************************************************)
(* Screen::disposeWindow(window), called by Window::dispose().             *)
(***************************************************************************)
RECURSIVE Within(_, _)
\* w is window or one of its descendants
Within(w, window) ==
  IF w = null THEN FALSE
  ELSE IF w = window THEN TRUE
  ELSE Within(parent(w), window)

\* A variant of DisposedFocusPath: the path is left as it is.
DisposedFocusPathKept(window) == focusPath

\* lines 352-353: the path is emptied when the window is on it
DisposedFocusPath(window) == IF window \in Range(focusPath) THEN <<>> ELSE focusPath

disposeWindow(window) ==
  /\ Alive
  /\ stack = <<>>
  /\ focusPath' = DisposedFocusPath(window)
  /\ dragWidget' = IF dragWidget = window THEN null ELSE dragWidget
  \* removeChild(window) destroys the window and, with it, its descendants
  /\ children' = Remove(children, window)
  /\ focused' = {w \in focused : ~Within(w, window)}
  /\ call' = [Call("disposeWindow") EXCEPT !.w = window, !.pre = children]
  /\ events' = <<>>
  /\ ret' = FALSE
  /\ UNCHANGED <<parentWindow, mousePos, mouseState, modifiers, dragActive,
                 dragButton, cursor, crashed, stack>>
  /\ UNCHANGED <<sizeVars, viewVars, timeVars, fateVars, backendCursor>>

(***************************************************************************)
(* The Screen driven by the backend's callbacks and the application.       *)
(***************************************************************************)
Next ==
  \/ \E xy \in RawPoints : cursorPosCallbackEvent(xy)
  \/ \E button \in Buttons, action \in Actions, mods \in Modifiers :
       mouseButtonCallbackEvent(button, action, mods)
  \/ \E rel \in ScrollSteps : scrollCallbackEvent(rel)
  \/ \E widget \in Live \cup {null} : updateFocus(widget)
  \/ \E window \in Range(children) \cap Windows : moveWindowToFrontCall(window)
  \/ \E window \in Range(children) \cap Windows : disposeWindow(window)

Spec == Init /\ [][Next]_vars


(***************************************************************************)
(* The keyboard: the focus moved by the application, keys and characters   *)
(* reported by the backend.                                                *)
(***************************************************************************)
NextKeys ==
  \/ \E widget \in Live \cup {null} : updateFocus(widget)
  \/ \E window \in Range(children) \cap Windows : disposeWindow(window)
  \/ \E key \in Keys, action \in Actions, mods \in Modifiers :
       keyCallbackEvent(key, action, mods)
  \/ \E codepoint \in Codepoints : charCallbackEvent(codepoint)

SpecKeys == Init /\ [][NextKeys]_vars

(***************************************************************************)
(* The window resized by the window system, with frames drawn in between.  *)
(***************************************************************************)
NextSize ==
  \/ \E sz \in Sizes, fbSize \in Sizes : windowResized(sz, fbSize)
  \/ resizeCallbackEvent
  \/ drawAll

SpecSize == Init /\ [][NextSize]_vars

(***************************************************************************)
(* Every callback of the backend, with handlers that may raise errors.     *)
(***************************************************************************)
NextErr ==
  \/ \E xy \in RawPoints : cursorPosCallbackEvent(xy)
  \/ \E action \in Actions : mouseButtonCallbackEvent(NG_MOUSE_BUTTON_1, action, 0)
  \/ \E key \in Keys : keyCallbackEvent(key, NG_PRESS, 0)
  \/ \E codepoint \in Codepoints : charCallbackEvent(codepoint)
  \/ \E files \in Drops : dropCallbackEvent(files)
  \/ \E rel \in ScrollSteps : scrollCallbackEvent(rel)
  \/ resizeCallbackEvent
  \/ drawAll
  \/ \E widget \in {"B", "M"} \cap Live : updateFocus(widget)
  \/ \E op \in Callbacks, std \in BOOLEAN : callbackRaises(op, std)

SpecErr == Init /\ [][NextErr]_vars

(***************************************************************************)
(* Frames drawn as time passes: the pointer moves, the clock advances, the *)
(* application shows and hides the Screen.                                 *)
(***************************************************************************)
NextFrame ==
  \/ Tick(1)
  \/ \E xy \in RawPoints : cursorPosCallbackEvent(xy)
  \/ \E v \in BOOLEAN : setVisible(Screen, v)
  \/ drawAll

SpecFrame == Init /\ [][NextFrame]_vars

(***************************************************************************)
(* Hit testing in a tree whose widgets the application shows and hides.    *)
(***************************************************************************)
NextHit ==
  \/ \E w \in {Screen, "A", "N", "B"}, v \in BOOLEAN : setVisible(w, v)
  \/ \E xy \in RawPoints : cursorPosCallbackEvent(xy)
  \/ \E action \in Actions : mouseButtonCallbackEvent(NG_MOUSE_BUTTON_1, action, 0)
  \/ Tick(TooltipWait)
  \/ drawAll

SpecHit == Init /\ [][NextHit]_vars

(***************************************************************************)
(* Pointer and buttons in the larger window with Win and Btn.              *)
(***************************************************************************)
InitLarge ==
  /\ children = <<"Win">>
  /\ parentWindow = [w \in Popups |-> "Win"]
  /\ InitScreen
  /\ winSize = LargeSize
  /\ winFBSize = LargeSize
  /\ mSize = winSize
  /\ mFBSize = winFBSize
  /\ mVisible = TRUE
  /\ hidden = {}
  /\ now = 0
  /\ lastInteraction = now

NextLarge ==
  \/ \E xy \in LargePoints : cursorPosCallbackEvent(xy)
  \/ \E button \in Buttons, action \in Actions, mods \in Modifiers :
       mouseButtonCallbackEvent(button, action, mods)

SpecLarge == InitLarge /\ [][NextLarge]_vars

(***************************************************************************)
(* Input of every kind as time passes, with frames drawn in between.       *)
(***************************************************************************)
NextInput ==
  \/ Tick(TooltipWait)
  \/ \E xy \in RawPoints : cursorPosCallbackEvent(xy)
  \/ \E action \in Actions : mouseButtonCallbackEvent(NG_MOUSE_BUTTON_1, action, 0)
  \/ \E key \in Keys : keyCallbackEvent(key, NG_PRESS, 0)
  \/ \E codepoint \in Codepoints : charCallbackEvent(codepoint)
  \/ \E files \in Drops : dropCallbackEvent(files)
  \/ \E rel \in ScrollSteps : scrollCallbackEvent(rel)
  \/ \E widget \in {"B", "M"} \cap Live : updateFocus(widget)
  \/ drawAll

SpecInput == Init /\ [][NextInput]_vars

(***************************************************************************)
(* The window stacking alone: any stacking order of the top-level windows  *)
(* and popups, any acyclic assignment of owners to the popups.             *)
(***************************************************************************)
\* the sequences without repetition over the set S
RECURSIVE Orders(_)
Orders(S) ==
  {<<>>} \cup UNION {{Append(o, x) : o \in Orders(S \ {x})} : x \in S}

RECURSIVE OwnerAfter(_, _, _)
\* the window reached from w by following n owner references (null past a non-popup)
OwnerAfter(pw, w, n) ==
  IF n = 0 THEN w
  ELSE IF ~IsPopup(w) THEN null
  ELSE OwnerAfter(pw, pw[w], n - 1)

\* no popup owns itself, directly or through other popups
Acyclic(pw) ==
  \A q \in Popups : \A n \in 1 .. Cardinality(Popups) : OwnerAfter(pw, q, n) # q

InitStack ==
  /\ children \in Orders(TopLevel)
  /\ parentWindow \in {pw \in [Popups -> Windows] : Acyclic(pw)}
  /\ InitScreen
  /\ InitWindow

NextStack ==
  \/ \E window \in Range(children) \cap Windows : moveWindowToFrontCall(window)
  \/ \E widget \in Live \cup {null} : updateFocus(widget)

SpecStack == InitStack /\ [][NextStack]_vars

(***************************************************************************)
(* Screen::moveWindowToFront run statement by statement, with its          *)
(* recursion on an explicit call stack, for any assignment of owners.      *)
(***************************************************************************)
Frame(window, pc) == [window |-> window, pc |-> pc]
Top == stack[Len(stack)]
Pop == SubSeq(stack, 1, Len(stack) - 1)

\* the application calls moveWindowToFront(window)
mwtfCall(window) ==
  /\ Alive
  /\ stack = <<>>
  /\ stack' = <<Frame(window, "erase")>>
  /\ call' = [Call("moveWindowToFront") EXCEPT !.w = window, !.pre = children]
  /\ UNCHANGED <<children, parentWindow, focusPath, focused, mousePos, mouseState,
                 modifiers, dragActive, dragWidget, dragButton, cursor, crashed,
                 events, ret>>
  /\ UNCHANGED <<sizeVars, viewVars, timeVars, fateVars, backendCursor>>

\* line 368-369 of the running call
mwtfErase ==
  /\ Alive
  /\ stack # <<>>
  /\ Top.pc = "erase"
  /\ children' = ToBack(children, Top.window)
  /\ stack' = Append(Pop, Frame(Top.window, "scan"))
  /\ UNCHANGED <<parentWindow, focusPath, focused, mousePos, mouseState, modifiers,
                 dragActive, dragWidget, dragButton, cursor, crashed, call, events, ret>>
  /\ UNCHANGED <<sizeVars, viewVars, timeVars, fateVars, backendCursor>>

\* one pass of the do-while loop, lines 372-386: the scan finds nothing and the call
\* returns, or it finds a popup and calls moveWindowToFront(pw), after which it scans again
mwtfScan ==
  /\ Alive
  /\ stack # <<>>
  /\ Top.pc = "scan"
  /\ LET p == FirstMisplaced(children, parentWindow, Top.window)
     IN IF p = null
          THEN stack' = Pop /\ UNCHANGED crashed
          ELSE IF Len(stack) < MaxDepth
            THEN stack' = Append(stack, Frame(p, "erase")) /\ UNCHANGED crashed
            \* the recursion has used up the call stack
            ELSE crashed' = TRUE /\ UNCHANGED stack
  /\ UNCHANGED <<children, parentWindow, focusPath, focused, mousePos, mouseState,
                 modifiers, dragActive, dragWidget, dragButton, cursor, call, events, ret>>
  /\ UNCHANGED <<sizeVars, viewVars, timeVars, fateVars, backendCursor>>

mwtfStep == mwtfErase \/ mwtfScan

InitSteps ==
  /\ children \in Orders(TopLevel)
  /\ parentWindow \in [Popups -> Windows]
  /\ InitScreen
  /\ InitWindow

NextSteps ==
  \/ \E window \in Range(children) \cap Windows : mwtfCall(window)
  \/ mwtfErase
  \/ mwtfScan

\* a call that has begun keeps running
SpecSteps == InitSteps /\ [][NextSteps]_vars /\ WF_vars(mwtfStep)

\* the call in progress
Running == stack # <<>>
\* the call has returned
Returned == stack = <<>> /\ ~crashed

\* Run to its end, the statement-by-statement call leaves the children the function gives.
StepsAgree ==
  (Returned /\ call.op = "moveWindowToFront" /\ Acyclic(parentWindow))
    => children = moveWindowToFront(call.pre, parentWindow, call.w)


(***************************************************************************)
(* Window stacking.                                                        *)
(***************************************************************************)
\* the popups of ch that window owns
PopupsOf(ch, pw, window) == {q \in Popups \cap Range(ch) : pw[q] = window}

\* every popup of ch whose owner is in ch too comes after its owner
PopupsAfterOwners(ch, pw) ==
  \A q \in Popups \cap Range(ch) :
    pw[q] \in Range(ch) => IndexOf(ch, pw[q]) < IndexOf(ch, q)

\* C1: after moveWindowToFront(win) has returned, every popup among the children whose
\* parentWindow is win has an index strictly greater than the index of win.
C1_PopupsFollowMovedWindow ==
  call.op = "moveWindowToFront" =>
    \A q \in PopupsOf(children, parentWindow, call.w) :
      IndexOf(children, q) > IndexOf(children, call.w)

\* C1 happens: the window moved had two popups in front of it, and the call put both behind it.
C1_Witness ==
  /\ call.op = "moveWindowToFront"
  /\ Cardinality(PopupsOf(children, parentWindow, call.w)) = 2
  /\ \A q \in PopupsOf(children, parentWindow, call.w) :
       /\ IndexOf(call.pre, q) < IndexOf(call.pre, call.w)
       /\ IndexOf(children, q) > IndexOf(children, call.w)

\* C2: a moveWindowToFront or updateFocus call that starts with every popup after its
\* owner (the owners acyclic) ends with every popup after its owner, whichever window moved.
C2_PopupsStayAfterOwners ==
  (call.op \in {"moveWindowToFront", "updateFocus"}
     /\ PopupsAfterOwners(call.pre, parentWindow))
    => PopupsAfterOwners(children, parentWindow)

\* C2 happens: window A was moved from under a chain A <- P <- Q of popups and a second
\* window, and the popup Q, whose owner is not the moved window, still follows its owner.
C2_Witness ==
  /\ call.op = "moveWindowToFront"
  /\ call.w = "A"
  /\ call.pre = <<"A", "P", "Q", "M">>
  /\ parentWindow["P"] = "A"
  /\ parentWindow["Q"] = "P"
  /\ children = <<"M", "A", "P", "Q">>

\* C3 as claimed: for every assignment of owners, a moveWindowToFront call that has begun returns.
C3_AlwaysTerminates == Running ~> Returned

\* C3 amended: for every acyclic assignment of owners, a call that has begun returns.
C3_TerminatesWhenAcyclic == (Running /\ Acyclic(parentWindow)) ~> Returned

\* C3 happens: a call has returned after it had to fix a popup (recursive call included).
C3_Witness ==
  /\ Returned
  /\ call.op = "moveWindowToFront"
  /\ Acyclic(parentWindow)
  /\ children # ToBack(call.pre, call.w)
  /\ \E q \in PopupsOf(children, parentWindow, call.w) :
       PopupsOf(children, parentWindow, q) # {}


(***************************************************************************)
(* Focus.                                                                  *)
(***************************************************************************)
\* path is w, parent(w), ..., up to the root
IsChainOf(path, w) ==
  /\ Len(path) >= 1
  /\ path[1] = w
  /\ \A i \in 1 .. Len(path) - 1 : path[i + 1] = parent(path[i])
  /\ path[Len(path)] = Screen

\* the positions of the focusEvent(gained) calls in evs
FocusCalls(evs, gained) ==
  {i \in 1 .. Len(evs) : evs[i].k = "focus" /\ evs[i].down = gained}

\* how many focusEvent(false) calls w received
LostCount(evs, w) == Cardinality({i \in FocusCalls(evs, FALSE) : evs[i].w = w})

\* C4: updateFocus(w), w a widget of the tree, leaves focusPath = w, parent(w), ..., root,
\* and every widget of the old path that is not in the new one has received exactly one
\* focus-lost notification if it reported itself focused, none otherwise.
C4_FocusPathIsChain ==
  [][(call'.op = "updateFocus" /\ call'.w # null) =>
       /\ IsChainOf(focusPath', call'.w)
       /\ \A w \in Range(focusPath) \ Range(focusPath') :
            LostCount(events', w) = IF w \in focused THEN 1 ELSE 0]_vars

\* C4 happens: focus went from the button B (path B, N, A, Screen) to the window M, and B, N
\* and A, no longer in the path, have each been told once.
C4_Witness ==
  /\ call.op = "updateFocus"
  /\ call.w = "M"
  /\ focusPath = <<"M", Screen>>
  /\ \A w \in {"B", "N", "A"} : LostCount(events, w) = 1

\* C5: in one updateFocus call every focus-lost notification precedes every focus-gained
\* one, and the focus-gained ones go to the new path from the root to the leaf, once each.
C5_LostThenGainedRootFirst ==
  call.op = "updateFocus" =>
    LET gained == SelectSeq(events, LAMBDA e : e.k = "focus" /\ e.down)
    IN /\ \A i \in FocusCalls(events, FALSE) : \A j \in FocusCalls(events, TRUE) : i < j
       /\ Len(gained) = Len(focusPath)
       /\ \A i \in 1 .. Len(gained) : gained[i].w = focusPath[Len(focusPath) + 1 - i]

\* C5 happens: focus moved from M to B: two notifications of loss, then four of gain.
C5_Witness ==
  /\ call.op = "updateFocus"
  /\ call.w = "B"
  /\ Cardinality(FocusCalls(events, FALSE)) = 2
  /\ Cardinality(FocusCalls(events, TRUE)) = 4

\* the Windows on the focus path, by position
WindowsOnPath == {i \in 1 .. Len(focusPath) : IsWindow(focusPath[i])}

\* window was moved to the front of the children: it is last, the others kept their order
MovedToFront(window) ==
  /\ children # <<>>
  /\ children[Len(children)] = window
  /\ Remove(children, window) = Remove(call.pre, window)

\* C6 as claimed: updateFocus(w) moves the nearest Window ancestor of w (the first Window
\* met from w towards the root) to the front; with no Window ancestor the order is unchanged.
C6_NearestWindowMoved ==
  call.op = "updateFocus" =>
    IF WindowsOnPath = {} THEN children = call.pre
    ELSE MovedToFront(focusPath[CHOOSE i \in WindowsOnPath : \A j \in WindowsOnPath : i <= j])

\* C6 amended: updateFocus(w) moves the outermost Window ancestor of w (the last Window met
\* from w towards the root) to the front; with no Window ancestor the order is unchanged.
C6_OutermostWindowMoved ==
  call.op = "updateFocus" =>
    IF WindowsOnPath = {} THEN children = call.pre
    ELSE MovedToFront(focusPath[CHOOSE i \in WindowsOnPath : \A j \in WindowsOnPath : j <= i])

\* C6 happens: focus was given to the button B inside the nested window N, and A came to the front.
C6_Witness ==
  /\ call.op = "updateFocus"
  /\ call.w = "B"
  /\ call.pre = <<"A", "M">>
  /\ children = <<"M", "A">>

(***************************************************************************)
(* Drag and capture.                                                       *)
(***************************************************************************)
\* the last mouse-button callback was not suppressed: it delivered the event to the Screen
ButtonDelivered ==
  /\ call.op = "mouseButton"
  /\ events # <<>>
  /\ events[Len(events)].k = "button"
  /\ events[Len(events)].w = Screen

\* C7: after a non-suppressed press of button 1 or 2 the widget hit at mousePos, when it is
\* not the Screen, is captured; when it is the Screen or nothing, the controller is Idle
\* and focusPath is empty.  dragWidget is never the Screen.
C7_PressCaptures ==
  /\ dragWidget # Screen
  /\ (ButtonDelivered /\ call.action = NG_PRESS
        /\ call.button \in {NG_MOUSE_BUTTON_1, NG_MOUSE_BUTTON_2}) =>
       LET hit == findWidget(mousePos)
       IN IF hit \notin {Screen, null}
            THEN dragActive /\ dragWidget = hit
            ELSE ~dragActive /\ dragWidget = null /\ focusPath = <<>>

\* C7 happens: button 2 was pressed over the button B and B is captured.
C7_Witness ==
  /\ ButtonDelivered
  /\ call.action = NG_PRESS
  /\ call.button = NG_MOUSE_BUTTON_2
  /\ findWidget(mousePos) = "B"
  /\ dragActive
  /\ dragWidget = "B"

\* C8 as claimed: while Dragging, a mouse-button callback that reports the release of the
\* button that began the drag leaves the controller Idle when it returns.
C8_ReleaseEndsDrag ==
  [][(dragActive /\ call'.op = "mouseButton" /\ call'.action = NG_RELEASE
        /\ call'.button = dragButton /\ ~crashed')
       => ~dragActive']_vars

\* the cursor-motion callback just run: its corrected position
MotionPos == CorrectedPos(call.p)

\* C9 as claimed: while W is captured a cursor-motion callback delivers a drag event to W
\* (position relative to W's parent, delta from the previous mousePos), delivers the
\* motion to no other widget and performs no hit test.
C9_DragEventOnly ==
  [][(call'.op = "cursorPos" /\ dragActive /\ InTree(dragWidget)) =>
       LET p == CorrectedPos(call'.p)
       IN /\ Len(events') >= 1
          /\ events'[1].k = "drag"
          /\ events'[1].w = dragWidget
          /\ events'[1].p = VSub(p, absolutePosition(parent(dragWidget)))
          /\ events'[1].rel = VSub(p, mousePos)
          /\ \A i \in 1 .. Len(events') :
               events'[i].k # "findWidget" /\ events'[i].w = dragWidget]_vars

\* C9 amended: while W is captured and in the tree a cursor-motion callback delivers one
\* drag event to W (position relative to W's parent, delta from the previous mousePos)
\* and performs no hit test; the only other call is the generic motion event to the
\* Screen, made exactly when W's drag handler returned false.
C9_DragEventThenMotion ==
  [][(call'.op = "cursorPos" /\ dragActive /\ InTree(dragWidget)) =>
       LET p == CorrectedPos(call'.p)
       IN /\ Len(events') >= 1
          /\ events'[1].k = "drag"
          /\ events'[1].w = dragWidget
          /\ events'[1].p = VSub(p, absolutePosition(parent(dragWidget)))
          /\ events'[1].rel = VSub(p, mousePos)
          /\ Len(events') = IF events'[1].r THEN 1 ELSE 2
          /\ \A i \in 2 .. Len(events') :
               events'[i].k = "motion" /\ events'[i].w = Screen]_vars

\* C9 happens: B is captured, the pointer moved, B got the drag event and, its handler
\* having returned false, the Screen got the motion event.
C9_Witness ==
  /\ call.op = "cursorPos"
  /\ dragActive
  /\ dragWidget = "B"
  /\ InTree("B")
  /\ Len(events) = 2
  /\ events[1].k = "drag"
  /\ events[1].w = "B"
  /\ events[1].p = VSub(mousePos, <<2, 2>>)
  /\ events[1].rel # <<0, 0>>
  /\ events[2].k = "motion"

\* the generic motion event of a cursor-motion callback to position p, returning r
GenericMotion(p, r) == EvMotion(Screen, p, VSub(p, mousePos), mouseState, modifiers, r)

\* C10 as claimed: every cursor-motion callback, Idle or Dragging and whatever the drag
\* handler returns, delivers a generic motion event to the Screen with the delta and the
\* current mouseState and modifiers.
C10_MotionAlwaysDelivered ==
  [][(call'.op = "cursorPos" /\ (dragActive => InTree(dragWidget))) =>
       \E i \in 1 .. Len(events') :
         events'[i] = GenericMotion(CorrectedPos(call'.p), events'[i].r)]_vars

\* C10 amended: a cursor-motion callback received while Idle, or while Dragging a widget
\* of the tree whose drag handler returns false, delivers a generic motion event to the
\* Screen with the delta and the current mouseState and modifiers, as its last call; when
\* the drag handler returns true it delivers none and returns true.
C10_MotionUnlessDragConsumed ==
  [][(call'.op = "cursorPos" /\ (dragActive => InTree(dragWidget))) =>
       LET consumed == dragActive /\ events'[1].k = "drag" /\ events'[1].r
           motions == {i \in 1 .. Len(events') : events'[i].k = "motion"}
       IN IF consumed
            THEN motions = {} /\ ret' = TRUE
            ELSE /\ motions = {Len(events')}
                 /\ events'[Len(events')] = GenericMotion(CorrectedPos(call'.p), ret')]_vars

\* C10 happens, both ways: B is captured and a cursor-motion callback ended with the
\* generic motion event (here), or with B's handler consuming the drag event.
C10_Witness ==
  /\ call.op = "cursorPos"
  /\ dragActive
  /\ dragWidget = "B"
  /\ InTree("B")
  /\ mouseState # 0
  /\ modifiers # 0
  /\ events[Len(events)].k = "motion"
  /\ events[Len(events)].state = mouseState
  /\ events[Len(events)].mods = modifiers
  /\ events[Len(events)].rel # <<0, 0>>

\* the positions in evs of the button events sent to a widget other than the Screen
SynthesizedAt(evs) == {i \in 1 .. Len(evs) : evs[i].k = "button" /\ evs[i].w # Screen}

\* C11: a release that is not suppressed, arriving while W is captured (W in the tree): if
\* the widget hit at mousePos is not W, W is sent one button event with pressed = false,
\* at mousePos relative to W's parent, before the release is delivered to the Screen (and
\* through it to the hit widget) and the capture is over when the callback returns; if
\* the hit widget is W, no such event is sent.
C11_ReleaseElsewhereSynthesized ==
  [][(call'.op = "mouseButton" /\ call'.action = NG_RELEASE /\ ~SuppressedByModal
        /\ dragActive /\ InTree(dragWidget)) =>
       LET at == SynthesizedAt(events')
           last == Len(events')
       IN /\ events'[last].k = "button" /\ events'[last].w = Screen
          /\ ~dragActive'
          /\ IF findWidget(mousePos) = dragWidget THEN at = {}
             ELSE /\ Cardinality(at) = 1
                  /\ \A i \in at :
                       /\ i < last
                       /\ events'[i].w = dragWidget
                       /\ events'[i].down = FALSE
                       /\ events'[i].button = call'.button
                       /\ events'[i].p = VSub(mousePos, absolutePosition(parent(dragWidget)))]_vars

\* C11 happens: B was captured, the pointer left it, and the release sent B its own release
\* (relative to N, B's parent, at (2, 2)) before the Screen's.
C11_Witness ==
  /\ call.op = "mouseButton"
  /\ call.action = NG_RELEASE
  /\ ~dragActive
  /\ InTree("B")
  /\ findWidget(mousePos) # "B"
  /\ SynthesizedAt(events) = {2}
  /\ events[2].w = "B"
  /\ events[2].p = VSub(mousePos, <<2, 2>>)
  /\ events[Len(events)].w = Screen

(***************************************************************************)
(* Modality.                                                               *)
(***************************************************************************)
\* focusPath has two entries or more, the second from the top is the modal Window M, and
\* mousePos lies outside M
ModalOutside(M) ==
  /\ Len(focusPath) >= 2
  /\ focusPath[Len(focusPath) - 1] = M
  /\ M \in Windows
  /\ modal(M)
  /\ ~contains(M, mousePos)

\* C12: when the second-from-top entry of focusPath is a modal Window M and mousePos is
\* outside M, a mouse-button callback and a scroll callback return false, deliver no event
\* to any widget, and leave mouseState, focusPath, dragActive, dragWidget and the children
\* order as they were (so focus stays on M).
C12_ModalSuppresses ==
  [][(call'.op \in {"mouseButton", "scroll"} /\ \E M \in Widgets : ModalOutside(M)) =>
       /\ ret' = FALSE
       /\ events' = <<>>
       /\ UNCHANGED <<mouseState, focusPath, dragActive, dragWidget, children>>]_vars

\* C12 happens: focus is on the modal window M, the pointer is outside it, and a scroll
\* callback has returned false having delivered nothing.
C12_Witness ==
  /\ call.op = "scroll"
  /\ ModalOutside("M")
  /\ focusPath = <<"M", Screen>>
  /\ events = <<>>
  /\ ret = FALSE

(***************************************************************************)
(* Keyboard.                                                               *)
(***************************************************************************)
\* the calls evs offer a key or character event to the widgets of offered in that order,
\* stopping at the first that consumes it, and consumed tells whether one did
OfferedInOrder(offered, evs, consumed) ==
  /\ Len(evs) <= Len(offered)
  /\ \A i \in 1 .. Len(evs) : evs[i].k \in {"key", "char"} /\ evs[i].w = offered[i]
  /\ \A i \in 1 .. Len(evs) - 1 : ~evs[i].r
  /\ consumed = (evs # <<>> /\ evs[Len(evs)].r)
  /\ ~consumed => Len(evs) = Len(offered)

\* the focused widgets of the focus path below the Screen, the leaf first
LeafOutward ==
  SelectSeq([i \in 1 .. Len(focusPath) - 1 |-> focusPath[i]], LAMBDA w : w \in focused)

\* the focused widgets of the focus path below the Screen, the outermost first
RootInward ==
  SelectSeq([i \in 1 .. Len(focusPath) - 1 |-> focusPath[Len(focusPath) - i]],
            LAMBDA w : w \in focused)

\* C13 as claimed: a key or character event is offered to the focused widgets of focusPath
\* from the leaf outward, never to the Screen, stopping at the first that consumes it; the
\* callback returns true exactly when one consumed it.
C13_OfferedLeafOutward ==
  [][call'.op \in {"key", "char"} => OfferedInOrder(LeafOutward, events', ret')]_vars

\* C13 amended: a key or character event is offered to the focused widgets of focusPath
\* from the outermost one below the Screen inward to the leaf, never to the Screen,
\* stopping at the first that consumes it; the callback returns true exactly when one
\* consumed it, and returns false having delivered nothing when focusPath is empty.
C13_OfferedRootInward ==
  [][call'.op \in {"key", "char"} =>
       /\ OfferedInOrder(RootInward, events', ret')
       /\ \A i \in 1 .. Len(events') : events'[i].w # Screen
       /\ focusPath = <<>> => (events' = <<>> /\ ret' = FALSE)]_vars

\* C13 happens: focus is on the button B; a key went to the window A, which let it pass,
\* then to the nested window N, which consumed it, and B never saw it.
C13_Witness ==
  /\ call.op = "key"
  /\ focusPath = <<"B", "N", "A", Screen>>
  /\ Len(events) = 2
  /\ events[1].w = "A" /\ ~events[1].r
  /\ events[2].w = "N" /\ events[2].r
  /\ ret = TRUE

(***************************************************************************)
(* Resizing.                                                               *)
(***************************************************************************)
\* the positions in evs of the resize notifications
ResizeCalls(evs) == {i \in 1 .. Len(evs) : evs[i].k = "resize"}

\* C14 as claimed: a resize callback received while the backend reports a (0, 0) window
\* size or a (0, 0) framebuffer size returns false, delivers no resize notification, and
\* leaves the cached size, framebuffer size and lastInteraction unchanged.
C14_ZeroSizeRejected ==
  [][(call'.op = "resize" /\ (winSize = <<0, 0>> \/ winFBSize = <<0, 0>>)) =>
       /\ ret' = FALSE
       /\ ResizeCalls(events') = {}
       /\ UNCHANGED <<mSize, mFBSize, lastInteraction>>]_vars

\* C23 as claimed: a resize callback received while the backend reports a window size and
\* a framebuffer size both different from (0, 0) stores both as the cached sizes, sets
\* lastInteraction to the current time and delivers the resize notification with the new
\* size, whatever sizes were cached before.
C23_NonZeroSizeAccepted ==
  [][(call'.op = "resize" /\ winSize # <<0, 0>> /\ winFBSize # <<0, 0>>) =>
       /\ mSize' = winSize
       /\ mFBSize' = winFBSize
       /\ lastInteraction' = now
       /\ \E i \in ResizeCalls(events') : events'[i].p = winSize]_vars

(***************************************************************************)
(* Errors raised by handlers.                                              *)
(***************************************************************************)
\* C15 as claimed: when the handler a callback invokes raises an error, whichever callback
\* it is, the error does not reach the backend and the system is in the fatal state, from
\* which no later callback or frame draw is processed.
C15_HandlerErrorsAreFatal ==
  [][/\ call'.raised => (aborted' /\ ~escaped')
     /\ ~aborted]_vars

(***************************************************************************)
(* Disposal.                                                               *)
(***************************************************************************)
\* C16 as claimed: when disposeWindow(win) has returned, whatever was captured or focused
\* when it was called, win is no longer among the Screen's children and neither focusPath
\* nor dragWidget refers to win or to a descendant of win.
C16_NoReferenceToDisposed ==
  call.op = "disposeWindow" =>
    /\ call.w \notin Range(children)
    /\ \A i \in 1 .. Len(focusPath) : ~Within(focusPath[i], call.w)
    /\ ~Within(dragWidget, call.w)

\* C26 as claimed: in every reachable state, dragActive implies that dragWidget is a
\* widget of the Screen's tree other than the Screen itself, never none and never a
\* widget removed by disposeWindow.
C26_DragWidgetInTree ==
  dragActive => (dragWidget # null /\ dragWidget # Screen /\ dragWidget \in Live)

(***************************************************************************)
(* Frames.                                                                 *)
(***************************************************************************)
\* the positions in evs of the tooltips painted
TooltipsAt(evs) == {i \in 1 .. Len(evs) : evs[i].k = "tooltip"}

\* a frame drawn now would find the pointer over a widget with tooltip text
OverTooltip ==
  /\ mVisible
  /\ findWidgetSized(winSize, mousePos) # null
  /\ tooltip(findWidgetSized(winSize, mousePos)) # ""

\* evs paint one tooltip, with this alpha (in hundredths)
PaintsTooltip(evs, alpha) ==
  /\ Cardinality(TooltipsAt(evs)) = 1
  /\ \A i \in TooltipsAt(evs) : evs[i].alpha = alpha

\* C17 as claimed: the pointer being over a widget with a tooltip and lastInteraction being
\* T, a frame drawn at T + 0.2 paints no tooltip, one drawn at T + 0.5 paints it with alpha
\* 0, one drawn at T + 1.0 or later with alpha 0.8, and one in between with alpha
\* 0.8 * 2 * (elapsed - 0.5).  (Time in tenths, alpha in hundredths.)
C17_TooltipFromHalfUnit ==
  [][(call'.op = "drawAll" /\ OverTooltip) =>
       LET elapsed == now - lastInteraction
       IN /\ elapsed = 2 => TooltipsAt(events') = {}
          /\ elapsed = 5 => PaintsTooltip(events', 0)
          /\ (elapsed > 5 /\ elapsed < 10) => PaintsTooltip(events', 8 * 2 * (elapsed - 5))
          /\ elapsed >= 10 => PaintsTooltip(events', 80)]_vars

\* C17 amended: a frame drawn at T + 0.5 or earlier paints no tooltip (the threshold must be
\* exceeded), one drawn at T + 1.0 or later paints it with alpha 0.8, and one in between
\* with alpha 0.8 * 2 * (elapsed - 0.5).
C17_TooltipAfterHalfUnit ==
  [][(call'.op = "drawAll" /\ OverTooltip) =>
       LET elapsed == now - lastInteraction
       IN /\ elapsed <= 5 => TooltipsAt(events') = {}
          /\ (elapsed > 5 /\ elapsed < 10) => PaintsTooltip(events', 8 * 2 * (elapsed - 5))
          /\ elapsed >= 10 => PaintsTooltip(events', 80)]_vars

\* C17 happens: the pointer has rested on the button B for 0.6 time units and the frame
\* shows B's tooltip at alpha 0.16.
C17_Witness ==
  /\ call.op = "drawAll"
  /\ OverTooltip
  /\ now - lastInteraction = 6
  /\ \E i \in TooltipsAt(events) : events[i].w = "B" /\ events[i].alpha = 16

\* C18 as claimed: when the Screen is not visible drawAll does nothing: it calls neither the
\* drawContents hook nor the backend nor the renderer, and changes no state of the Screen.
C18_InvisibleFrameSkipped ==
  [][(call'.op = "drawAll" /\ ~mVisible) =>
       /\ events' = <<>>
       /\ UNCHANGED <<mSize, mFBSize, mousePos, cursor, lastInteraction, children,
                      focusPath, dragActive, dragWidget>>]_vars

(***************************************************************************)
(* The cursor shape.                                                       *)
(***************************************************************************)
\* the positions in evs of the ngSetCursor calls
SetCursorAt(evs) == {i \in 1 .. Len(evs) : evs[i].k = "setCursor"}

\* the widget whose shape the operation just run looked at: the one under the new pointer
\* position for a cursor-motion callback, the one under mousePos for a button callback
HoverTarget(c) ==
  IF c.op = "cursorPos" THEN findWidget(CorrectedPos(c.p)) ELSE findWidget(mousePos)

\* C19: whatever the callbacks, ngSetCursor is called only with the shape of the hit-tested
\* widget and only when that shape differs from the one in force, so never twice running
\* with the same shape; the cached cursor is always the shape last sent to the backend
\* (the arrow before any call); a cursor-motion callback received while Dragging does
\* not call it.
C19_CursorSetOnlyOnChange ==
  [][/\ \A i \in SetCursorAt(events') :
          /\ events'[i].shape # backendCursor
          /\ events'[i].shape # cursor
          /\ events'[i].shape = cursorOf(HoverTarget(call'))
     /\ Cardinality(SetCursorAt(events')) <= 1
     /\ cursor = backendCursor
     /\ cursor' = backendCursor'
     /\ (call'.op = "cursorPos" /\ dragActive) => SetCursorAt(events') = {}]_vars

\* C19 happens: the button B was dragged off onto the bare Screen with the hand showing,
\* and the release there has set the arrow.
C19_Witness ==
  /\ call.op = "mouseButton"
  /\ call.action = NG_RELEASE
  /\ findWidget(mousePos) = Screen
  /\ SetCursorAt(events) # {}
  /\ \A i \in SetCursorAt(events) : events[i].shape = CursorArrow
  /\ cursor = CursorArrow
  /\ backendCursor = CursorArrow

(***************************************************************************)
(* Hit testing and visibility.                                             *)
(***************************************************************************)
\* w is invisible or has an invisible ancestor
Unseen(w) == \E a \in Widgets : a \in Range(Chain(w)) /\ ~visible(a)

\* the points of the Screen and of a margin around it
Grid == (-1 .. 8) \X (-1 .. 8)

\* findWidget gives, at every point, nothing or a widget that is visible with all its ancestors
FindsOnlySeen ==
  \A p \in Grid : \E w \in Widgets \cup {null} :
    w = findWidget(p) /\ (w = null \/ ~Unseen(w))

\* C20: findWidget never returns an invisible widget or a descendant of one; so the widget
\* whose cursor shape a hover applies, the widget a press captures and the widget whose
\* tooltip a frame paints are never such widgets.
C20_HitTestSkipsInvisible ==
  /\ []FindsOnlySeen
  /\ [][/\ (call'.op = "cursorPos" /\ SetCursorAt(events') # {}) =>
            \E w \in Widgets : w = HoverTarget(call') /\ ~Unseen(w)
        /\ (call'.op = "mouseButton" /\ call'.action = NG_PRESS /\ dragActive') =>
            \E w \in Widgets : w = dragWidget' /\ ~Unseen(w)
        /\ (call'.op = "drawAll") =>
            \A i \in TooltipsAt(events') :
              \E w \in Widgets : w = events'[i].w /\ ~Unseen(w)]_vars

\* C20 happens: the window N is hidden, so the press over the place of its button B has
\* captured the window A underneath.
C20_Witness ==
  /\ call.op = "mouseButton"
  /\ call.action = NG_PRESS
  /\ hidden = {"N"}
  /\ mVisible
  /\ contains("B", VSub(mousePos, absolutePosition("N")))
  /\ dragActive
  /\ dragWidget = "A"

(***************************************************************************)
(* Press on a button, then drag away.                                      *)
(***************************************************************************)
\* C21: Btn (at (10, 10) in the non-modal window Win, 20 by 20) has just been captured by
\* a press of button 1 with the pointer on it at (15, 15); the pointer then moves to
\* (100, 100).  Btn is sent a drag event whose delta is (85, 85), the new position minus
\* the position at the press, and whose position is (100, 100) minus the position of Win;
\* no cursor shape is set, the cached cursor stays, and Btn stays captured.
C21_PressThenDrag ==
  [][(/\ call.op = "mouseButton" /\ call.action = NG_PRESS
      /\ call.button = NG_MOUSE_BUTTON_1
      /\ mousePos = <<15, 15>>
      /\ dragActive /\ dragWidget = "Btn"
      /\ call'.op = "cursorPos" /\ call'.p = <<101, 102>>) =>
       /\ mousePos' = <<100, 100>>
       /\ events'[1].k = "drag"
       /\ events'[1].w = "Btn"
       /\ events'[1].rel = <<85, 85>>
       /\ events'[1].p = VSub(<<100, 100>>, position("Win"))
       /\ \A i \in 1 .. Len(events') :
            events'[i].k \notin {"setCursor", "findWidget"}
       /\ cursor' = cursor
       /\ dragActive' /\ dragWidget' = "Btn"]_vars

\* C21 happens: the pointer went from (15, 15) on the captured Btn to (100, 100), off every
\* widget but the Screen, and Btn got the drag event with delta (85, 85) while the hand
\* cursor of Btn stayed.
C21_Witness ==
  /\ call.op = "cursorPos"
  /\ mousePos = <<100, 100>>
  /\ findWidget(mousePos) = Screen
  /\ dragActive /\ dragWidget = "Btn" /\ dragButton = NG_MOUSE_BUTTON_1
  /\ events[1].k = "drag" /\ events[1].w = "Btn"
  /\ events[1].rel = <<85, 85>>
  /\ events[1].p = <<98, 97>>
  /\ cursor = CursorHand

(***************************************************************************)
(* The time of the last interaction.                                       *)
(***************************************************************************)
\* the callbacks that report input other than dropped files
StampingInput == {"cursorPos", "mouseButton", "key", "char", "scroll"}

\* C22 as claimed: each of the cursor-position, mouse-button, key, character, file-drop and
\* scroll callbacks sets lastInteraction to the current time, suppressed or unconsumed
\* events included, and a frame drawn straight after any of them shows no tooltip.
C22_EveryInputStamps ==
  [][/\ call'.op \in StampingInput \cup {"drop"} => lastInteraction' = now
     /\ (call.op \in StampingInput \cup {"drop"} /\ call'.op = "drawAll") =>
          TooltipsAt(events') = {}]_vars

\* C22 amended: each of the cursor-position, mouse-button, key, character and scroll
\* callbacks sets lastInteraction to the current time, suppressed or unconsumed events
\* included, and a frame drawn straight after any of them, or less than 0.5 time units
\* after lastInteraction, shows no tooltip; the file-drop callback leaves lastInteraction
\* as it was.
C22_InputButDropStamps ==
  [][/\ call'.op \in StampingInput => lastInteraction' = now
     /\ call'.op = "drop" => lastInteraction' = lastInteraction
     /\ (call'.op = "drawAll" /\ (call.op \in StampingInput \/ now - lastInteraction < 5)) =>
          TooltipsAt(events') = {}]_vars

\* C22 happens: after a wait, a button event suppressed by the modal window M has set
\* lastInteraction to the current time.
C22_Witness ==
  /\ call.op = "mouseButton"
  /\ ModalOutside("M")
  /\ events = <<>>
  /\ now > 0
  /\ lastInteraction = now

(***************************************************************************)
(* The render calls of a frame.                                            *)
(***************************************************************************)
RenderKinds == {"beginFrame", "draw", "tooltip", "endFrame"}

IsRenderCall(e) == e.k \in RenderKinds

\* the kinds of the render calls among evs, in their order
RenderOrder(evs) ==
  LET calls == SelectSeq(evs, IsRenderCall)
  IN [i \in 1 .. Len(calls) |-> calls[i].k]

\* C24: in every frame drawn on a visible Screen the render calls are: begin frame, paint the
\* widget tree, optionally the tooltip overlay, end frame, with one end-frame for the one
\* begin-frame; the tooltip is painted only when more than 0.5 time units have passed
\* since lastInteraction and the widget found at mousePos has tooltip text.
C24_RenderCallsInOrder ==
  [][(call'.op = "drawAll" /\ mVisible) =>
       /\ RenderOrder(events') \in {<<"beginFrame", "draw", "endFrame">>,
                                    <<"beginFrame", "draw", "tooltip", "endFrame">>}
       /\ events'[Len(events')].k = "endFrame"
       /\ TooltipsAt(events') # {} => (now - lastInteraction > 5 /\ OverTooltip)]_vars

\* C24 happens: a frame was drawn with the tooltip painted between the widget tree and
\* the end of the frame.
C24_Witness ==
  /\ call.op = "drawAll"
  /\ RenderOrder(events) = <<"beginFrame", "draw", "tooltip", "endFrame">>

\* C25: a frame draw leaves focusPath, dragActive, dragWidget, mouseState, modifiers,
\* mousePos, lastInteraction, the applied cursor and the order of the Screen's children as
\* they were; of the Screen's state only the cached size and framebuffer size may change.
C25_FrameKeepsInteractionState ==
  [][call'.op = "drawAll" =>
       UNCHANGED <<focusPath, focused, dragActive, dragWidget, mouseState, modifiers,
                   mousePos, lastInteraction, cursor, backendCursor, children,
                   parentWindow, mVisible, hidden>>]_vars

\* C25 happens: a frame was drawn, tooltip included, during a drag of the button B.
C25_Witness ==
  /\ call.op = "drawAll"
  /\ dragActive /\ dragWidget = "B"
  /\ mouseState # 0
  /\ lastInteraction < now
  /\ TooltipsAt(events) # {}

(***************************************************************************)
(* The buttons held during a capture.                                      *)
(***************************************************************************)
\* C28: in every state reached by callbacks, updateFocus and disposeWindow calls that the
\* process has survived, dragActive implies that the bit of button 1 or the bit of
\* button 2 is set in mouseState; with mouseState 0 the controller is Idle.
C28_DragHoldsButton ==
  (dragActive /\ ~crashed) =>
    (TestBit(mouseState, NG_MOUSE_BUTTON_1) \/ TestBit(mouseState, NG_MOUSE_BUTTON_2))

\* C28 happens: a capture begun by button 2 alone, only the bit of button 2 being set.
C28_Witness ==
  /\ dragActive
  /\ dragButton = NG_MOUSE_BUTTON_2
  /\ TestBit(mouseState, NG_MOUSE_BUTTON_2)
  /\ ~TestBit(mouseState, NG_MOUSE_BUTTON_1)

OwnedBy(ch, pw, window) ==
  {q \in Popups \cap Range(ch) :
     \E n \in 1 .. Cardinality(Popups) :
       /\ OwnerAfter(pw, q, n) = window
       /\ \A m \in 1 .. n - 1 : OwnerAfter(pw, q, m) \in Range(ch)}

\* the children of ch placed after window
PlacedAfter(ch, window) == {ch[i] : i \in IndexOf(ch, window) + 1 .. Len(ch)}

\* C29: moveWindowToFront(win) for a child win only permutes the children; the children
\* placed after win are exactly the popups win owns directly or transitively (through
\* popups that are children themselves); every other
\* child precedes win and keeps its order relative to the other unmoved children.
C29_OnlyPermutes ==
  call.op = "moveWindowToFront" =>
    LET moved == OwnedBy(call.pre, parentWindow, call.w) \cup {call.w}
        rest == Range(call.pre) \ moved
    IN /\ Len(children) = Len(call.pre)
       /\ Range(children) = Range(call.pre)
       /\ PlacedAfter(children, call.w) = moved \ {call.w}
       /\ \A a \in rest : IndexOf(children, a) < IndexOf(children, call.w)
       /\ \A a, b \in rest :
            IndexOf(call.pre, a) < IndexOf(call.pre, b) =>
              IndexOf(children, a) < IndexOf(children, b)

\* C29 happens: A owns the popup P, which owns the popup Q; both stood before A, and the
\* call on A has put A, P and Q, in this order, after the untouched window M.
C29_Witness ==
  /\ call.op = "moveWindowToFront"
  /\ call.w = "A"
  /\ parentWindow["P"] = "A" /\ parentWindow["Q"] = "P"
  /\ call.pre = <<"Q", "P", "A", "M">>
  /\ children = <<"M", "A", "P", "Q">>

\* C30: with acyclic owners, moveWindowToFront(win) called twice in a row leaves the
\* children in the order the first call gave them, and updateFocus(w) called twice in a
\* row leaves focusPath and the children as the first call gave them.
C30_SecondCallChangesNothing ==
  [][/\ (call.op = "moveWindowToFront" /\ call'.op = "moveWindowToFront"
           /\ call'.w = call.w) => children' = children
     /\ (call.op = "updateFocus" /\ call'.op = "updateFocus" /\ call'.w = call.w) =>
          (focusPath' = focusPath /\ children' = children)]_vars

\* C30 happens: moveWindowToFront was called on a window that owns two popups, in the
\* order an earlier call on it gives (the window, then its popups), and the order is as
\* the call found it.
C30_Witness ==
  /\ call.op = "moveWindowToFront"
  /\ Cardinality(PopupsOf(children, parentWindow, call.w)) = 2
  /\ call.pre = children
  /\ children[Len(children)] # call.w

(***************************************************************************)
(* The focus path in every state.                                          *)
(***************************************************************************)
\* C31: in every state reached by input callbacks, updateFocus calls on widgets of the tree
\* and disposeWindow calls on top-level windows, focusPath is empty or a complete parent
\* chain: each entry's parent is the next entry, the last entry is the Screen and no
\* widget occurs twice; so the entry the key dispatcher skips is the Screen and the
\* second-from-top entry the modality check reads is a child of the Screen.
C31_FocusPathAlwaysChain ==
  focusPath # <<>> =>
    /\ IsChainOf(focusPath, focusPath[1])
    /\ \A i, j \in 1 .. Len(focusPath) : focusPath[i] = focusPath[j] => i = j
    /\ \A i \in 1 .. Len(focusPath) : focusPath[i] \in Live
    /\ focusPath[Len(focusPath)] = Screen
    /\ Len(focusPath) > 1 =>
         /\ parent(focusPath[Len(focusPath) - 1]) = Screen
         /\ focusPath[Len(focusPath) - 1] \in Range(children)

\* C31 happens: the window A has been disposed while the focus was on the window M, and
\* the path is still M, Screen.
C31_Witness ==
  /\ call.op = "disposeWindow"
  /\ call.w = "A"
  /\ focusPath = <<"M", Screen>>
  /\ "M" \in Range(children)

==========================================================================
